---- MODULE Spec2Model ----
(***************************************************************************)
(* Model of scripts/proxy_checker.py: main() fans one check_proxy_full     *)
(* coroutine per unique proxy out under an asyncio.Semaphore, gathers the  *)
(* ProxyResult of each, then ranks the working ones and writes the output  *)
(* files.  Every await of a network call is one suspension point: the      *)
(* request is in flight while pc[i] names the stage, and the action that   *)
(* completes it draws the response from a small set and runs the code up   *)
(* to the next await.                                                      *)
(***************************************************************************)
EXTENDS Integers, Sequences, FiniteSets, TLC

\* ------------------------------------------------------------------------
\* Bounds of the model
\* ------------------------------------------------------------------------
\* Longest list of parsed proxies (all sources together) a run starts with.
MaxProxies == 2
\* Largest concurrency cap a run is configured with.
MaxCap == 2
\* Most lines of a proxy-list text given to parse_proxy_list.
MaxLines == 2
\* Most pipelines whose outcomes are ranked, in the runs that only rank.
MaxRanked == 3

\* ------------------------------------------------------------------------
\* Settings and tables of the program
\* ------------------------------------------------------------------------
MAX_LATENCY_MS == 5000

COUNTRY_PRIORITY ==
    [c \in {"RU", "KZ", "BY", "UA", "AM", "GE", "MD", "DE", "NL", "FI", "SE", "NO",
            "PL", "FR", "GB", "LT", "LV", "EE", "US", "CA", "JP", "KR", "SG", "HK"} |->
        CASE c = "RU" -> 0  [] c = "KZ" -> 1  [] c = "BY" -> 2  [] c = "UA" -> 3
          [] c = "AM" -> 4  [] c = "GE" -> 5  [] c = "MD" -> 6
          [] c = "DE" -> 10 [] c = "NL" -> 11 [] c = "FI" -> 12 [] c = "SE" -> 13
          [] c = "NO" -> 14 [] c = "PL" -> 15 [] c = "FR" -> 16 [] c = "GB" -> 17
          [] c = "LT" -> 20 [] c = "LV" -> 21 [] c = "EE" -> 22
          [] c = "US" -> 30 [] c = "CA" -> 31
          [] c = "JP" -> 40 [] c = "KR" -> 41 [] c = "SG" -> 42 [] c = "HK" -> 43]

\* ------------------------------------------------------------------------
\* What the network can answer (the inputs of the model)
\* ------------------------------------------------------------------------
\* get_my_ip: the stripped body of the echo service, or "" when the lookup failed.
MyIpValues == {"", "1.1.1.1"}
\* The ip field of the HTTPS echo body: the caller's own address or another one.
ExitIps == {"1.1.1.1", "2.2.2.2"}
\* check_tcp: (False, 0) on any failure (refused, timeout, DNS), else (True, ms).
TcpResponses ==
    {[ok |-> FALSE, latency |-> 0]} \cup [ok : {TRUE}, latency : {5000, 5001}]
\* Whether opening the aiohttp session raises (the outer try of check_proxy_full).
SessionResponses == {"ok", "exc"}
\* The plain-HTTP request: an exception, a status other than 200, or 200.
HttpResponses == {"exc", "non200", "200"}
\* The HTTPS request: an exception, a status other than 200, 200 with a body that
\* is no JSON object, 200 with a JSON object without ip, or 200 with ip = e.
HttpsResponses == {"exc", "non200", "badbody", "noip"} \cup ExitIps
\* ip-api.com: an exception, a status other than 200, or 200 with a JSON object;
\* "MISSING" is an absent key, "UNHASHABLE" a countryCode that is a JSON array.
NoBody == [country |-> "MISSING", countryCode |-> "MISSING", isp |-> "MISSING",
           org |-> "MISSING"]
GeoBodies ==
    { [country |-> "Russia", countryCode |-> "RU", isp |-> "Rostelecom LLC",
       org |-> "MISSING"],
      [country |-> "Brazil", countryCode |-> "BR", isp |-> "MISSING",
       org |-> "Claro Brasil Telecomunicacoes"],
      NoBody,
      [country |-> "Russia", countryCode |-> "UNHASHABLE", isp |-> "MISSING",
       org |-> "MISSING"] }
GeoResponses ==
    [status : {"exc", "non200"}, body : {NoBody}] \cup [status : {"200"}, body : GeoBodies]
\* The reference download: an exception, a status other than 200, or 200 with
\* `bytes` bytes read in `elapsed` seconds.
SpeedResponses ==
    [status : {"exc", "non200"}, bytes : {0}, elapsed : {0}]
        \cup [status : {"200"}, bytes : {0, 10240}, elapsed : {0, 1}]

\* ------------------------------------------------------------------------
\* State
\* ------------------------------------------------------------------------
VARIABLES
    mainpc,           \* where main() is
    my_ip,            \* main: my_ip
    max_concurrent,   \* MAX_CONCURRENT of this run
    all_proxies,      \* main: all_proxies, the parsed proxies of every source
    unique_proxies,   \* main: unique_proxies
    total,            \* main: total
    semaphore,        \* the semaphore's value (free slots)
    waiters,          \* the semaphore's FIFO of tasks blocked in acquire
    ready,            \* tasks the semaphore has woken, in the loop's ready order
    counter,          \* main: counter[0]
    pc,               \* per task: where check_proxy_full is
    num,              \* per task: num
    result,           \* per task: result (the ProxyResult)
    stages,           \* per task: the stages entered so far, in order
    results,          \* main: results
    working,          \* main: working
    files,            \* the files written in the working directory: name -> lines
    countries_dir,    \* the countries/ directory: <<>> if absent, else <<name -> lines>>
    content,          \* parse_proxy_list: content, as its lines, each a token sequence
    proxies           \* parse_proxy_list: proxies

vars == <<mainpc, my_ip, max_concurrent, all_proxies, unique_proxies, total, semaphore, waiters,
          ready, counter, pc, num, result, stages, results, working, files,
          countries_dir, content, proxies>>

mainvars == <<mainpc, my_ip, max_concurrent, all_proxies, unique_proxies, total,
              results, working, files, countries_dir, content, proxies>>

Tasks == 1..total

\* ------------------------------------------------------------------------
\* Proxy descriptors (the dicts parse_proxy_list builds) and main's deduplication
\* ------------------------------------------------------------------------
\* Descriptors with pairwise different host:port keys, in a fixed order.
ProxyPool ==
    << [host |-> "10.0.0.1", port |-> 8080, protocol |-> "http", user |-> "", password |-> ""],
       [host |-> "10.0.0.1", port |-> 3128, protocol |-> "http", user |-> "u", password |-> "pw"],
       [host |-> "10.0.0.2", port |-> 8080, protocol |-> "socks5", user |-> "", password |-> ""],
       [host |-> "10.0.0.3", port |-> 80, protocol |-> "https", user |-> "", password |-> ""],
       [host |-> "10.0.0.4", port |-> 80, protocol |-> "http", user |-> "", password |-> ""],
       [host |-> "10.0.0.5", port |-> 80, protocol |-> "http", user |-> "", password |-> ""] >>

\* The lists all_proxies can hold: up to MaxProxies descriptors, repetitions
\* included, new keys appearing in the pool's order (keys are interchangeable).
IndexLists ==
    { s \in UNION { [1..n -> 1..MaxProxies] : n \in 0..MaxProxies } :
        \A k \in 1..Len(s) : s[k] = 1 \/ \E j \in 1..(k - 1) : s[j] >= s[k] - 1 }
InputLists == { [k \in 1..Len(s) |-> ProxyPool[s[k]]] : s \in IndexLists }

\* key = f"{host}:{port}"
Key(p) == <<p.host, p.port>>

RECURSIVE DedupFrom(_, _, _)
DedupFrom(ps, seen, unique) ==
    IF ps = <<>> THEN unique
    ELSE LET p == Head(ps) IN
         IF Key(p) \notin seen
         THEN DedupFrom(Tail(ps), seen \cup {Key(p)}, Append(unique, p))
         ELSE DedupFrom(Tail(ps), seen, unique)

\* A main that checks every parsed proxy, repeated or not.
DedupNothing(ps) == ps

\* The loop over all_proxies with the set `seen`.
Dedup(ps) == DedupFrom(ps, {}, <<>>)

\* ------------------------------------------------------------------------
\* ProxyResult
\* ------------------------------------------------------------------------
\* A result that is born working.
ProxyResultBornWorking(p) ==
    [proxy |-> Key(p), host |-> p.host, port |-> p.port, protocol |-> p.protocol,
     working |-> TRUE, tcp_ok |-> FALSE, http_ok |-> FALSE,
     https_ok |-> FALSE, anonymous |-> FALSE, latency_ms |-> 0, speed_kbps |-> 0,
     exit_ip |-> "", country |-> "", country_code |-> "", isp |-> "", error |-> ""]

\* result = ProxyResult(proxy=..., host=..., port=..., protocol=..., working=False)
ProxyResult(p) ==
    [proxy |-> Key(p), host |-> p.host, port |-> p.port, protocol |-> p.protocol,
     working |-> FALSE, tcp_ok |-> FALSE, http_ok |-> FALSE,
     https_ok |-> FALSE, anonymous |-> FALSE, latency_ms |-> 0, speed_kbps |-> 0,
     exit_ip |-> "", country |-> "", country_code |-> "", isp |-> "", error |-> ""]

\* ------------------------------------------------------------------------
\* get_ip_info
\* ------------------------------------------------------------------------
\* The suffix stripping and the cut to 25 characters, on the names of GeoBodies.
NormalizeIsp(isp) ==
    CASE isp = "Rostelecom LLC" -> "Rostelecom"
      [] isp = "Claro Brasil Telecomunicacoes" -> "Claro Brasil Telecomun..."
      [] OTHER -> isp

Get(body_value, default) == IF body_value = "MISSING" THEN default ELSE body_value

get_ip_info(resp) ==
    IF resp.status = "200"
    THEN LET data == resp.body
             raw == IF Get(data.isp, "") # "" THEN data.isp ELSE Get(data.org, "Unknown")
         IN  [country |-> Get(data.country, "Unknown"),
              code |-> Get(data.countryCode, "XX"),
              isp |-> NormalizeIsp(raw)]
    ELSE [country |-> "Unknown", code |-> "XX", isp |-> "Unknown"]

\* ------------------------------------------------------------------------
\* The decisions of check_proxy_full
\* ------------------------------------------------------------------------
\* A gate created one slot too wide.
SemaphoreInitOffByOne == max_concurrent + 1

\* asyncio.Semaphore(MAX_CONCURRENT)
SemaphoreInit == max_concurrent

\* Semaphore.locked(): no free slot, or somebody is queued already.
Locked == semaphore = 0 \/ waiters # <<>>

\* if latency > MAX_LATENCY_MS
LatencyTooHigh(latency) == latency > MAX_LATENCY_MS

\* A pipeline that never short-circuits on the protocol checks.
NoConnectivityNever(r) == FALSE

\* if not result.http_ok and not result.https_ok
NoConnectivity(r) == ~r.http_ok /\ ~r.https_ok

\* An anonymity test that forgets to ask for a captured exit address.
IsAnonymousUnguarded(exit_ip, own_ip) == exit_ip # own_ip

\* if result.exit_ip and result.exit_ip != my_ip
IsAnonymous(exit_ip, own_ip) == exit_ip # "" /\ exit_ip # own_ip

\* result.working = (result.http_ok or result.https_ok)
Working(r) == r.http_ok \/ r.https_ok

\* result.speed_kbps = (len(data) / 1024) / elapsed, if both are positive
SpeedKbps(resp) ==
    IF resp.status = "200" /\ resp.bytes > 0 /\ resp.elapsed > 0
    THEN (resp.bytes \div 1024) \div resp.elapsed
    ELSE 0

\* ------------------------------------------------------------------------
\* Ranking and the output files (main, after the gather)
\* ------------------------------------------------------------------------
\* COUNTRY_PRIORITY.get(r.country_code, 99)
\* A sort key that puts the countries the table does not list first.
PriorityUnlistedFirst(code) ==
    IF code \in DOMAIN COUNTRY_PRIORITY THEN COUNTRY_PRIORITY[code] ELSE 0

Priority(code) ==
    IF code \in DOMAIN COUNTRY_PRIORITY THEN COUNTRY_PRIORITY[code] ELSE 99

\* The two sort keys: (latency_ms, -speed_kbps) and (priority, latency_ms).
SortKey(r, by) ==
    IF by = "quality" THEN <<r.latency_ms, 0 - r.speed_kbps>>
    ELSE <<Priority(r.country_code), r.latency_ms>>

KeyLess(a, b) == a[1] < b[1] \/ (a[1] = b[1] /\ a[2] < b[2])

\* list.sort is stable: an element goes behind the elements that are not greater.
RECURSIVE InsertSorted(_, _, _)
InsertSorted(x, s, by) ==
    IF s = <<>> THEN <<x>>
    ELSE IF KeyLess(SortKey(x, by), SortKey(Head(s), by)) THEN <<x>> \o s
    ELSE <<Head(s)>> \o InsertSorted(x, Tail(s), by)

RECURSIVE Sort(_, _)
Sort(s, by) ==
    IF s = <<>> THEN <<>>
    ELSE InsertSorted(s[Len(s)], Sort(SubSeq(s, 1, Len(s) - 1), by), by)

\* working = [r for r in results if r.working], sorted by quality and, when
\* there is any, by country and latency.
IsWorking(r) == r.working
Ranked(rs) ==
    LET w == Sort(SelectSeq(rs, IsWorking), "quality")
    IN  IF w # <<>> THEN Sort(w, "country") ELSE w

\* code = r.country_code or "XX"
GroupCode(r) == IF r.country_code = "" THEN "XX" ELSE r.country_code

\* The codes of w in the order of their first occurrence (dict insertion order).
RECURSIVE CodeOrder(_, _)
CodeOrder(w, seen) ==
    IF w = <<>> THEN <<>>
    ELSE IF GroupCode(Head(w)) \in seen THEN CodeOrder(Tail(w), seen)
    ELSE <<GroupCode(Head(w))>> \o CodeOrder(Tail(w), seen \cup {GroupCode(Head(w))})

Group(w, code) == SelectSeq(w, LAMBDA r : GroupCode(r) = code)

\* f"{country_name.lower().replace(' ', '_')}.txt", on the names of the model
FileName(country) ==
    CASE country = "Russia" -> "russia.txt"
      [] country = "Brazil" -> "brazil.txt"
      [] country = "Germany" -> "germany.txt"
      [] OTHER -> "unknown.txt"

GroupFile(w, code) ==
    LET members == Group(w, code)
    IN  FileName(IF members[1].country = "" THEN "Unknown" ELSE members[1].country)

PlainLines(w) == [k \in 1..Len(w) |-> w[k].proxy]
UrlLines(w) == [k \in 1..Len(w) |-> <<"http://", w[k].host, w[k].port>>]

\* The files of countries/: one open(filepath, 'w') per code, in dict order, so
\* a later code with the same file name overwrites the earlier one.
CountryFiles(w) ==
    LET codes == CodeOrder(w, {})
        names == { GroupFile(w, codes[k]) : k \in 1..Len(codes) }
        last(n) == CHOOSE k \in 1..Len(codes) :
                      /\ GroupFile(w, codes[k]) = n
                      /\ \A j \in 1..Len(codes) : GroupFile(w, codes[j]) = n => j <= k
    IN  [n \in names |-> PlainLines(Group(w, codes[last(n)]))]

ReportEntry(r) ==
    [host |-> r.host, port |-> r.port, proxy |-> r.proxy,
     protocol |-> IF r.https_ok THEN "https" ELSE "http",
     anonymous |-> r.anonymous, country |-> r.country, country_code |-> r.country_code,
     isp |-> r.isp, latency_ms |-> r.latency_ms, speed_kbps |-> r.speed_kbps,
     exit_ip |-> r.exit_ip]

Report(rs, w) ==
    LET codes == CodeOrder(w, {})
    IN  [total_checked |-> Len(rs),
         working_count |-> Len(w),
         http_count |-> Len(SelectSeq(w, LAMBDA r : r.http_ok)),
         https_count |-> Len(SelectSeq(w, LAMBDA r : r.https_ok)),
         anonymous_count |-> Len(SelectSeq(w, LAMBDA r : r.anonymous)),
         countries |-> [c \in { codes[k] : k \in 1..Len(codes) } |->
                           [name |-> Group(w, c)[1].country, count |-> Len(Group(w, c))]],
         proxies |-> [k \in 1..Len(w) |-> ReportEntry(w[k])]]

OutputNames == {"proxies.txt", "proxies_http.txt", "proxies_https.txt",
                "proxies_anonymous.txt", "proxy_report.json"}

\* The five files main writes: the lists and the report when something works,
\* five empty files otherwise.
OutputFiles(rs, w) ==
    IF w # <<>>
    THEN [n \in OutputNames |->
            CASE n = "proxies.txt" -> PlainLines(w)
              [] n = "proxies_http.txt" -> UrlLines(SelectSeq(w, LAMBDA r : r.http_ok))
              [] n = "proxies_https.txt" -> UrlLines(SelectSeq(w, LAMBDA r : r.https_ok))
              [] n = "proxies_anonymous.txt" -> PlainLines(SelectSeq(w, LAMBDA r : r.anonymous))
              [] OTHER -> <<Report(rs, w)>>]
    ELSE [n \in OutputNames |-> <<>>]

\* countries/ is made, and filled, only in the branch that has working proxies;
\* the other branch leaves it as it was.
CountriesDir(w, old) ==
    IF w # <<>> THEN [exists |-> TRUE, files |-> CountryFiles(w)] ELSE old

\* ------------------------------------------------------------------------
\* Initial state: main() is about to look its own address up
\* ------------------------------------------------------------------------
NoFiles == [n \in {} |-> <<>>]

Init ==
    /\ mainpc = "get_my_ip"
    /\ my_ip = ""
    /\ max_concurrent \in 1..MaxCap
    /\ all_proxies = <<>>
    /\ unique_proxies = <<>>
    /\ total = 0
    /\ semaphore = 0
    /\ waiters = <<>>
    /\ ready = <<>>
    /\ counter = 0
    /\ pc = <<>>
    /\ num = <<>>
    /\ result = <<>>
    /\ stages = <<>>
    /\ results = <<>>
    /\ working = <<>>
    /\ files = NoFiles
    /\ countries_dir = [exists |-> FALSE, files |-> NoFiles]
    /\ content = <<>>
    /\ proxies = <<>>

taskvars == <<semaphore, waiters, ready, counter, pc, num, result, stages>>

\* ------------------------------------------------------------------------
\* main() up to the gather
\* ------------------------------------------------------------------------
\* my_ip = await get_my_ip()
GetMyIp ==
    /\ mainpc = "get_my_ip"
    /\ \E ip \in MyIpValues : my_ip' = ip
    /\ mainpc' = "load"
    /\ UNCHANGED <<max_concurrent, all_proxies, unique_proxies, total, results,
                   working, files, countries_dir, content, proxies, taskvars>>

\* The source list, the fetch and parse of every source, the deduplication, and
\* the creation of the semaphore, the counter and the tasks.  main returns
\* early, writing nothing, without sources and without proxies.
LoadSources ==
    /\ mainpc = "load"
    /\ \E have_urls \in BOOLEAN, parsed \in InputLists :
         LET unique == Dedup(parsed) IN
         IF ~have_urls
         THEN /\ mainpc' = "no_sources"
              /\ UNCHANGED <<all_proxies, unique_proxies, total, taskvars>>
         ELSE IF unique = <<>>
         THEN /\ mainpc' = "no_proxies"
              /\ all_proxies' = parsed
              /\ UNCHANGED <<unique_proxies, total, taskvars>>
         ELSE /\ mainpc' = "checking"
              /\ all_proxies' = parsed
              /\ unique_proxies' = unique
              /\ total' = Len(unique)
              /\ semaphore' = SemaphoreInit
              /\ counter' = 0
              /\ pc' = [i \in 1..Len(unique) |-> "created"]
              /\ num' = [i \in 1..Len(unique) |-> 0]
              /\ result' = [i \in 1..Len(unique) |-> ProxyResult(unique[i])]
              /\ stages' = [i \in 1..Len(unique) |-> <<>>]
              /\ UNCHANGED <<waiters, ready>>
    /\ UNCHANGED <<my_ip, max_concurrent, results, working, files, countries_dir,
                   content, proxies>>

\* ------------------------------------------------------------------------
\* check_proxy_full, task i
\* ------------------------------------------------------------------------
\* Tasks whose first steps run in no particular order.
AnyToStart == { i \in Tasks : pc[i] = "created" }

\* gather wraps the coroutines in tasks in list order and the loop runs the
\* first step of each in that order.
NextToStart ==
    { i \in Tasks : pc[i] = "created" /\ \A j \in 1..(i - 1) : pc[j] # "created" }

\* The loop has run the first step of every task before it polls the network.
AllStarted == \A i \in Tasks : pc[i] # "created"

\* counter[0] += 1; num = counter[0]; result = ProxyResult(...); the TCP
\* connection is requested.
\* An entry whose increment is lost: the number is read, the counter stays.
EnterLostUpdate(i) ==
    /\ counter' = counter
    /\ num' = [num EXCEPT ![i] = counter + 1]
    /\ result' = [result EXCEPT ![i] = ProxyResult(unique_proxies[i])]
    /\ stages' = [stages EXCEPT ![i] = <<"TCP_CHECK">>]

Enter(i) ==
    /\ counter' = counter + 1
    /\ num' = [num EXCEPT ![i] = counter + 1]
    /\ result' = [result EXCEPT ![i] = ProxyResult(unique_proxies[i])]
    /\ stages' = [stages EXCEPT ![i] = <<"TCP_CHECK">>]

\* The first step of task i: async with semaphore, which takes a slot at once or
\* queues the task.
Start(i) ==
    /\ mainpc = "checking"
    /\ i \in NextToStart
    /\ IF ~Locked
       THEN /\ semaphore' = semaphore - 1
            /\ pc' = [pc EXCEPT ![i] = "tcp"]
            /\ Enter(i)
            /\ UNCHANGED <<waiters, ready>>
       ELSE /\ waiters' = Append(waiters, i)
            /\ pc' = [pc EXCEPT ![i] = "waiting"]
            /\ UNCHANGED <<semaphore, ready, counter, num, result, stages>>
    /\ UNCHANGED mainvars

\* A woken task runs on: the loop resumes woken tasks in the order of their
\* wake-up.
Resume(i) ==
    /\ ready # <<>>
    /\ i = Head(ready)
    /\ pc[i] = "woken"
    /\ ready' = Tail(ready)
    /\ pc' = [pc EXCEPT ![i] = "tcp"]
    /\ Enter(i)
    /\ UNCHANGED <<semaphore, waiters>>
    /\ UNCHANGED mainvars

\* The slots free after a release when nobody is queued.
\* A release that does not give the slot back.
ReleasedLeak(value) == value

Released(value) == value + 1

\* return result, out of the async with: the slot goes to the first queued task
\* (release adds one and the wake-up takes it again) or back to the semaphore.
Return(i, r) ==
    /\ result' = [result EXCEPT ![i] = r]
    /\ IF waiters # <<>>
       THEN /\ pc' = [pc EXCEPT ![i] = "done", ![Head(waiters)] = "woken"]
            /\ waiters' = Tail(waiters)
            /\ ready' = Append(ready, Head(waiters))
            /\ semaphore' = Released(semaphore) - 1
       ELSE /\ pc' = [pc EXCEPT ![i] = "done"]
            /\ semaphore' = Released(semaphore)
            /\ UNCHANGED <<waiters, ready>>
    /\ UNCHANGED <<counter, num>>

\* Task i goes on to the stage `stage`, its request in flight.
\* A pipeline that, on its way to the download, runs the protocol check a
\* second time.
GotoRetryOnce(i, stage, name, r) ==
    /\ result' = [result EXCEPT ![i] = r]
    /\ IF stage = "speed" /\ Len(SelectSeq(stages[i], LAMBDA n : n = "PROTOCOL_CHECK")) = 1
       THEN /\ pc' = [pc EXCEPT ![i] = "http"]
            /\ stages' = [stages EXCEPT ![i] = Append(@, "PROTOCOL_CHECK")]
       ELSE /\ pc' = [pc EXCEPT ![i] = stage]
            /\ stages' = [stages EXCEPT ![i] = Append(@, name)]
    /\ UNCHANGED <<semaphore, waiters, ready, counter, num>>

Goto(i, stage, name, r) ==
    /\ result' = [result EXCEPT ![i] = r]
    /\ pc' = [pc EXCEPT ![i] = stage]
    /\ stages' = [stages EXCEPT ![i] = Append(@, name)]
    /\ UNCHANGED <<semaphore, waiters, ready, counter, num>>

\* Stage 1: check_tcp answers.  A failed or slow connection returns the result;
\* otherwise the session is opened (an exception there is recorded and the
\* result returned) and the plain-HTTP request is sent.
TcpDone(i) ==
    /\ pc[i] = "tcp"
    /\ AllStarted
    /\ \E resp \in TcpResponses, session \in SessionResponses :
         LET r == [result[i] EXCEPT !.tcp_ok = resp.ok, !.latency_ms = resp.latency] IN
         IF ~resp.ok
         THEN Return(i, r) /\ UNCHANGED stages
         ELSE IF LatencyTooHigh(resp.latency)
         THEN Return(i, r) /\ UNCHANGED stages
         ELSE IF session = "exc"
         THEN Return(i, [r EXCEPT !.error = "session_error"]) /\ UNCHANGED stages
         ELSE Goto(i, "http", "PROTOCOL_CHECK", r)
    /\ UNCHANGED mainvars

\* Stage 2, first request: http://httpbin.org/ip answers and the HTTPS request
\* is sent.
HttpDone(i) ==
    /\ pc[i] = "http"
    /\ \E resp \in HttpResponses :
         /\ result' = [result EXCEPT ![i].http_ok = (resp = "200")]
         /\ pc' = [pc EXCEPT ![i] = "https"]
    /\ UNCHANGED <<semaphore, waiters, ready, counter, num, stages>>
    /\ UNCHANGED mainvars

\* The result after the HTTPS answer: https_ok is set on status 200, before the
\* body is parsed; exit_ip is data.get('ip', '') when the body is a JSON object.
AfterHttps(r, resp) ==
    IF resp \in {"exc", "non200"} THEN r
    ELSE IF resp \in {"badbody", "noip"} THEN [r EXCEPT !.https_ok = TRUE]
    ELSE [r EXCEPT !.https_ok = TRUE, !.exit_ip = resp]

\* Stage 2, second request: api.ipify.org answers.  Without any success the
\* result is returned as no_connectivity; an anonymous proxy goes to the geo
\* lookup, any other straight to the download.
HttpsDone(i) ==
    /\ pc[i] = "https"
    /\ \E resp \in HttpsResponses :
         LET r == AfterHttps(result[i], resp) IN
         IF NoConnectivity(r)
         THEN Return(i, [r EXCEPT !.error = "no_connectivity"]) /\ UNCHANGED stages
         ELSE IF IsAnonymous(r.exit_ip, my_ip)
         THEN Goto(i, "geo", "ENRICH", [r EXCEPT !.anonymous = TRUE])
         ELSE Goto(i, "speed", "THROUGHPUT", r)
    /\ UNCHANGED mainvars

\* Stage 3: get_ip_info answers.  COUNTRY_FLAGS.get(code) raises TypeError on a
\* code that is no string (outer except: the error is recorded and the result
\* returned); otherwise the download is requested.
GeoDone(i) ==
    /\ pc[i] = "geo"
    /\ \E resp \in GeoResponses :
         LET info == get_ip_info(resp)
             r == [result[i] EXCEPT !.country = info.country,
                                    !.country_code = info.code,
                                    !.isp = info.isp] IN
         IF info.code = "UNHASHABLE"
         THEN Return(i, [r EXCEPT !.error = "unhashable type"]) /\ UNCHANGED stages
         ELSE Goto(i, "speed", "THROUGHPUT", r)
    /\ UNCHANGED mainvars

\* Stage 4: the download answers; the verdict is computed and the result
\* returned.
SpeedDone(i) ==
    /\ pc[i] = "speed"
    /\ \E resp \in SpeedResponses :
         LET r == [result[i] EXCEPT !.speed_kbps = SpeedKbps(resp)] IN
         Return(i, [r EXCEPT !.working = Working(r)])
    /\ UNCHANGED stages
    /\ UNCHANGED mainvars

\* ------------------------------------------------------------------------
\* main() after the gather
\* ------------------------------------------------------------------------
\* A wait that returns on the first task that has returned.
AnyDone == \E i \in Tasks : pc[i] = "done"

\* results = await asyncio.gather(*tasks) returns when every task has returned.
AllDone == \A i \in Tasks : pc[i] = "done"

\* The rest of main runs without an await: filter, the two sorts, the files.
Aggregate ==
    /\ mainpc = "checking"
    /\ AllDone
    /\ results' = [i \in Tasks |-> result[i]]
    /\ working' = Ranked(results')
    /\ files' = OutputFiles(results', working')
    /\ countries_dir' = CountriesDir(working', countries_dir)
    /\ mainpc' = "finished"
    /\ UNCHANGED <<my_ip, max_concurrent, all_proxies, unique_proxies, total, taskvars,
                   content, proxies>>

Next ==
    \/ GetMyIp
    \/ LoadSources
    \/ \E i \in Tasks : Start(i)
    \/ \E i \in Tasks : Resume(i)
    \/ \E i \in Tasks : TcpDone(i)
    \/ \E i \in Tasks : HttpDone(i)
    \/ \E i \in Tasks : HttpsDone(i)
    \/ \E i \in Tasks : GeoDone(i)
    \/ \E i \in Tasks : SpeedDone(i)
    \/ Aggregate

Spec == Init /\ [][Next]_vars

\* The event loop keeps running what can run, and every network call completes
\* or times out: a step that stays possible is eventually taken.
SpecFair == Spec /\ WF_vars(Next)

\* ------------------------------------------------------------------------
\* parse_proxy and parse_proxy_list
\* ------------------------------------------------------------------------
\* A line is the sequence of its tokens: the separators ":", "//", "@", "#" and
\* " " (white space), and between them texts without any of these.
SchemeTexts == {"http", "socks5"}

\* int(text): the texts of the model that int() accepts, and their values.
IsIntText(text) == text \in {"8080", "3128", "0", "65535", "65536"}
IntValue(text) ==
    CASE text = "8080" -> 8080 [] text = "3128" -> 3128 [] text = "0" -> 0
      [] text = "65535" -> 65535 [] text = "65536" -> 65536

\* The lines a proxy-list text of the model is made of.
LinePool ==
    { <<"10.0.0.1", ":", "8080">>,
      <<"10.0.0.1", ":", "8080", ":", "u", ":", "pw">>,
      <<"socks5", ":", "//", "v", ":", "pw", "@", "10.0.0.1", ":", "8080">>,
      <<"http", ":", "//", "10.0.0.2">>,
      <<"10.0.0.2", ":", "3128">>,
      <<" ", "10.0.0.2", ":", "8080", " ">>,
      <<"10.0.0.2", ":", "65535", ":", "u">>,
      <<"bad.line.without.port">>,
      <<"10.0.0.2", ":", "abc">>,
      <<"#", "10.0.0.2", ":", "8080">>,
      <<" ">>,
      <<":", "8080">>,
      <<"10.0.0.1", ":", "65536">>,
      <<"10.0.0.1", ":", "0">>,
      <<"http", ":", "//", "10.0.0.1", ":", "65536">>,
      <<"http", ":", "//", "10.0.0.1", ":", "0">>,
      <<"http", ":", "//", ":", "8080">> }

\* content.split('\n') of the texts of the model.
Contents == UNION { [1..n -> LinePool] : n \in 0..MaxLines }

RECURSIVE StripLeft(_)
StripLeft(line) ==
    IF line # <<>> /\ Head(line) = " " THEN StripLeft(Tail(line)) ELSE line

RECURSIVE StripRight(_)
StripRight(line) ==
    IF line # <<>> /\ line[Len(line)] = " "
    THEN StripRight(SubSeq(line, 1, Len(line) - 1)) ELSE line

\* line.strip()
Strip(line) == StripRight(StripLeft(line))

\* The position of the first, or last, token `sep` of ts; 0 without one.
FirstOf(ts, sep) ==
    IF \E k \in 1..Len(ts) : ts[k] = sep
    THEN CHOOSE k \in 1..Len(ts) : ts[k] = sep /\ \A j \in 1..(k - 1) : ts[j] # sep
    ELSE 0
LastOf(ts, sep) ==
    IF \E k \in 1..Len(ts) : ts[k] = sep
    THEN CHOOSE k \in 1..Len(ts) : ts[k] = sep /\ \A j \in (k + 1)..Len(ts) : ts[j] # sep
    ELSE 0

\* The string a token sequence spells: a text, the empty string, or a string
\* that holds a separator (no host or number of the model does).
Text(ts) ==
    IF ts = <<>> THEN ""
    ELSE IF Len(ts) = 1 THEN ts[1]
    ELSE "<text with separators>"

\* line.split(sep)
RECURSIVE Split(_, _)
Split(ts, sep) ==
    IF FirstOf(ts, sep) = 0 THEN <<ts>>
    ELSE <<SubSeq(ts, 1, FirstOf(ts, sep) - 1)>>
            \o Split(SubSeq(ts, FirstOf(ts, sep) + 1, Len(ts)), sep)

\* '://' in line
HasSchemeSep(line) ==
    \E k \in 1..(Len(line) - 1) : line[k] = ":" /\ line[k + 1] = "//"

\* urlparse(line) and the attributes parse_proxy reads: scheme, hostname ("" for
\* None), username, password, and port, whose read raises ValueError on a text
\* that is no number or is outside 0..65535.
urlparse(line) ==
    LET has_scheme == Len(line) >= 2 /\ line[2] = ":" /\ line[1] \in SchemeTexts
        rest == IF has_scheme THEN SubSeq(line, 3, Len(line)) ELSE line
        netloc == IF rest # <<>> /\ rest[1] = "//" THEN Tail(rest) ELSE <<>>
        at == LastOf(netloc, "@")
        userinfo == IF at = 0 THEN <<>> ELSE SubSeq(netloc, 1, at - 1)
        hostinfo == IF at = 0 THEN netloc ELSE SubSeq(netloc, at + 1, Len(netloc))
        ucolon == FirstOf(userinfo, ":")
        hcolon == FirstOf(hostinfo, ":")
        porttext == IF hcolon = 0 THEN ""
                    ELSE Text(SubSeq(hostinfo, hcolon + 1, Len(hostinfo)))
    IN  [scheme |-> IF has_scheme THEN line[1] ELSE "",
         hostname |-> IF hcolon = 0 THEN Text(hostinfo)
                      ELSE Text(SubSeq(hostinfo, 1, hcolon - 1)),
         username |-> IF ucolon = 0 THEN Text(userinfo)
                      ELSE Text(SubSeq(userinfo, 1, ucolon - 1)),
         password |-> IF ucolon = 0 THEN ""
                      ELSE Text(SubSeq(userinfo, ucolon + 1, Len(userinfo))),
         port_error |-> /\ porttext # ""
                        /\ (~IsIntText(porttext) \/ IntValue(porttext) > 65535),
         port |-> IF porttext # "" /\ IsIntText(porttext) THEN IntValue(porttext) ELSE 0]

\* What parse_proxy returns for a line it does not accept.
None == [ok |-> FALSE, host |-> "", port |-> 0, protocol |-> "", user |-> "",
         password |-> ""]

\* parse_proxy(line): the URL form when the line holds '://', and, when that
\* gives no host or raises, or for any other line, the colon form.
parse_proxy(raw) ==
    LET line == Strip(raw)
        url == HasSchemeSep(line)
        parsed == urlparse(line)
        protocol == IF url /\ parsed.scheme # "" THEN parsed.scheme ELSE "http"
        user == IF url /\ ~parsed.port_error THEN parsed.username ELSE ""
        password == IF url /\ ~parsed.port_error THEN parsed.password ELSE ""
        parts == Split(line, ":")
    IN  IF line = <<>> \/ line[1] = "#" THEN None
        ELSE IF url /\ ~parsed.port_error /\ parsed.hostname # ""
        THEN [ok |-> TRUE, host |-> parsed.hostname,
              port |-> IF parsed.port # 0 THEN parsed.port ELSE 8080,
              protocol |-> protocol, user |-> user, password |-> password]
        ELSE IF Len(parts) >= 2 /\ IsIntText(Text(parts[2]))
        THEN [ok |-> TRUE, host |-> Text(parts[1]), port |-> IntValue(Text(parts[2])),
              protocol |-> protocol,
              user |-> IF Len(parts) >= 4 THEN Text(parts[3]) ELSE user,
              password |-> IF Len(parts) >= 4 THEN Text(parts[4]) ELSE password]
        ELSE None

\* The dict parse_proxy_list appends for a parsed line.
Descriptor(parsed) ==
    [host |-> parsed.host, port |-> parsed.port, protocol |-> parsed.protocol,
     user |-> parsed.user, password |-> parsed.password]

\* A loop that lets a later line with a known key replace the earlier one.
RECURSIVE ParseKeepLast(_, _)
ParseKeepLast(lines, found) ==
    IF lines = <<>> THEN found
    ELSE LET parsed == parse_proxy(Head(lines)) IN
         IF ~parsed.ok THEN ParseKeepLast(Tail(lines), found)
         ELSE IF \E k \in 1..Len(found) : Key(found[k]) = Key(parsed)
         THEN ParseKeepLast(Tail(lines),
                  [k \in 1..Len(found) |->
                      IF Key(found[k]) = Key(parsed) THEN Descriptor(parsed) ELSE found[k]])
         ELSE ParseKeepLast(Tail(lines), Append(found, Descriptor(parsed)))

parse_proxy_list_keep_last(lines) == ParseKeepLast(lines, <<>>)

\* The loop of parse_proxy_list over the lines, with the set `seen`.
RECURSIVE ParseFrom(_, _, _)
ParseFrom(lines, seen, found) ==
    IF lines = <<>> THEN found
    ELSE LET parsed == parse_proxy(Head(lines)) IN
         IF parsed.ok /\ Key(parsed) \notin seen
         THEN ParseFrom(Tail(lines), seen \cup {Key(parsed)},
                        Append(found, Descriptor(parsed)))
         ELSE ParseFrom(Tail(lines), seen, found)

parse_proxy_list(lines) == ParseFrom(lines, {}, <<>>)

\* A text is about to be parsed; nothing else of the program runs.
InitParse ==
    /\ mainpc = "parse"
    /\ content \in Contents
    /\ proxies = <<>>
    /\ my_ip = ""
    /\ max_concurrent = 1
    /\ all_proxies = <<>>
    /\ unique_proxies = <<>>
    /\ total = 0
    /\ semaphore = 0
    /\ waiters = <<>>
    /\ ready = <<>>
    /\ counter = 0
    /\ pc = <<>>
    /\ num = <<>>
    /\ result = <<>>
    /\ stages = <<>>
    /\ results = <<>>
    /\ working = <<>>
    /\ files = NoFiles
    /\ countries_dir = [exists |-> FALSE, files |-> NoFiles]

\* proxies = parse_proxy_list(content)
ParseProxyList ==
    /\ mainpc = "parse"
    /\ proxies' = parse_proxy_list(content)
    /\ mainpc' = "parsed"
    /\ UNCHANGED <<my_ip, max_concurrent, all_proxies, unique_proxies, total, results,
                   working, files, countries_dir, content, taskvars>>

SpecParse == InitParse /\ [][ParseProxyList]_vars

\* ------------------------------------------------------------------------
\* Runs in which every pipeline has returned and main ranks the outcomes
\* ------------------------------------------------------------------------
\* What the geo lookup of an anonymous proxy left in the outcome.
RankGeo ==
    { [country |-> "Russia", code |-> "RU"], [country |-> "Germany", code |-> "DE"],
      [country |-> "Brazil", code |-> "BR"], [country |-> "Unknown", code |-> "XX"] }
RankLatencies == {100, MAX_LATENCY_MS}

\* What a pipeline came to: TCP failed; working over plain HTTP without an exit
\* address (no geo data); working and anonymous with geo data.
RankCases ==
    {[kind |-> "failed", latency |-> 0, country |-> "", code |-> ""]}
      \cup { [kind |-> "plain", latency |-> l, country |-> "", code |-> ""]
             : l \in RankLatencies }
      \cup { [kind |-> "anonymous", latency |-> l, country |-> g.country, code |-> g.code]
             : l \in RankLatencies, g \in RankGeo }

\* The outcome check_proxy_full returns for the descriptor p in the case c.
RankOutcome(p, c) ==
    IF c.kind = "failed" THEN ProxyResult(p)
    ELSE IF c.kind = "plain"
    THEN [ProxyResult(p) EXCEPT !.tcp_ok = TRUE, !.latency_ms = c.latency,
                                !.http_ok = TRUE, !.working = TRUE]
    ELSE [ProxyResult(p) EXCEPT !.tcp_ok = TRUE, !.latency_ms = c.latency,
                                !.https_ok = TRUE, !.exit_ip = "2.2.2.2",
                                !.anonymous = TRUE, !.country = c.country,
                                !.country_code = c.code, !.isp = "Unknown",
                                !.speed_kbps = 10, !.working = TRUE]

\* The stages the pipeline that returned r went through.
StagesOf(r) ==
    IF ~r.tcp_ok THEN <<"TCP_CHECK">>
    ELSE IF r.anonymous THEN <<"TCP_CHECK", "PROTOCOL_CHECK", "ENRICH", "THROUGHPUT">>
    ELSE <<"TCP_CHECK", "PROTOCOL_CHECK", "THROUGHPUT">>

\* gather is about to return: every pipeline is done and every slot is free.
InitRank ==
    /\ mainpc = "checking"
    /\ my_ip = "1.1.1.1"
    /\ max_concurrent = 1
    /\ total \in 1..MaxRanked
    /\ unique_proxies = [i \in 1..total |-> ProxyPool[i]]
    /\ all_proxies = unique_proxies
    /\ semaphore = max_concurrent
    /\ waiters = <<>>
    /\ ready = <<>>
    /\ counter = total
    /\ pc = [i \in 1..total |-> "done"]
    /\ num = [i \in 1..total |-> i]
    /\ \E c \in [1..total -> RankCases] :
         result = [i \in 1..total |-> RankOutcome(ProxyPool[i], c[i])]
    /\ stages = [i \in 1..total |-> StagesOf(result[i])]
    /\ results = <<>>
    /\ working = <<>>
    /\ files = NoFiles
    /\ countries_dir = [exists |-> FALSE, files |-> NoFiles]
    /\ content = <<>>
    /\ proxies = <<>>

SpecRank == InitRank /\ [][Aggregate]_vars

\* ------------------------------------------------------------------------
\* Properties
\* ------------------------------------------------------------------------
InStages(i, name) == \E k \in 1..Len(stages[i]) : stages[i][k] = name

\* Task i holds a slot of the gate: it was admitted and has not returned.
HoldsSlot(i) == pc[i] \in {"woken", "tcp", "http", "https", "geo", "speed"}

\* C1: at any moment at most max_concurrent pipelines have been admitted by the
\* gate and have not yet returned.
C1_ConcurrencyBound ==
    Cardinality({ i \in Tasks : HoldsSlot(i) }) <= max_concurrent

\* C1 witness: the gate is full while another pipeline is queued behind it.
C1_Witness ==
    /\ Cardinality({ i \in Tasks : HoldsSlot(i) }) = max_concurrent
    /\ \E i \in Tasks : pc[i] = "waiting"

\* C2: an outcome that is working has passed the HTTP or the HTTPS check, in
\* every state of its pipeline, in the gathered results and in the ranked list.
C2_WorkingImpliesProtocol ==
    /\ \A i \in Tasks : result[i].working => result[i].http_ok \/ result[i].https_ok
    /\ \A k \in 1..Len(results) : results[k].working => results[k].http_ok \/ results[k].https_ok
    /\ \A k \in 1..Len(working) : working[k].http_ok \/ working[k].https_ok

\* C2 witness: a returned outcome is working on the strength of one check only.
C2_Witness ==
    \E i \in Tasks : /\ pc[i] = "done"
                     /\ result[i].working
                     /\ ~result[i].http_ok
                     /\ result[i].https_ok

\* C3: an anonymous outcome has an exit address, and it is not the run's own
\* address, whether or not the own address could be looked up.
C3_AnonymousExitIp ==
    /\ \A i \in Tasks :
         result[i].anonymous => result[i].exit_ip # "" /\ result[i].exit_ip # my_ip
    /\ \A k \in 1..Len(results) :
         results[k].anonymous => results[k].exit_ip # "" /\ results[k].exit_ip # my_ip

\* C3 witness: an outcome is anonymous in a run whose own-address lookup failed,
\* and another outcome of the run captured no exit address.
C3_Witness ==
    /\ my_ip = ""
    /\ \E i \in Tasks : result[i].anonymous
    /\ \E i \in Tasks : result[i].https_ok /\ result[i].exit_ip = ""

\* C4 as claimed: a pipeline whose TCP check failed ran no protocol stage and
\* returns http_ok, https_ok and working false with the error tag "unreachable".
C4_TcpFailureTagged ==
    \A i \in Tasks :
        pc[i] = "done" /\ ~result[i].tcp_ok =>
            /\ stages[i] = <<"TCP_CHECK">>
            /\ ~result[i].http_ok /\ ~result[i].https_ok /\ ~result[i].working
            /\ result[i].error = "unreachable"

\* Both protocol requests of task i were sent and neither came back with 200.
BothRequestsFailed(i) ==
    /\ InStages(i, "PROTOCOL_CHECK")
    /\ pc[i] \notin {"http", "https"}
    /\ ~result[i].http_ok /\ ~result[i].https_ok

C6_SlowTagged ==
    \A i \in Tasks :
        pc[i] = "done" /\ result[i].tcp_ok /\ result[i].latency_ms > MAX_LATENCY_MS =>
            /\ stages[i] = <<"TCP_CHECK">>
            /\ ~result[i].working
            /\ result[i].error = "unreachable"

\* C7: once main has gone on to the aggregation, every submitted pipeline has
\* returned, and the results aggregated are the returned ones.
C7_AggregateAfterAll ==
    mainpc = "finished" =>
        /\ \A i \in Tasks : pc[i] = "done"
        /\ Len(results) = total
        /\ \A i \in Tasks : results[i] = result[i]

\* C7 witness: the aggregation has run over two pipelines, one of them working.
C7_Witness ==
    mainpc = "finished" /\ total = 2 /\ Len(working) = 1

\* Task i has been admitted by the gate.
Admitted(i) == pc[i] \notin {"created", "waiting"}

C9_EmptyRunWritesArtifacts ==
    mainpc = "no_proxies" =>
        /\ total = 0 /\ pc = <<>>
        /\ DOMAIN files = OutputNames

\* C10 as claimed: when every pipeline has returned and none is working, every
\* artifact of a successful run is there and empty: the five files and the
\* per-country output.
C10_NoWorkingAllArtifacts ==
    mainpc = "finished" /\ working = <<>> =>
        /\ DOMAIN files = OutputNames
        /\ \A n \in DOMAIN files : files[n] = <<>>
        /\ countries_dir.exists
        /\ DOMAIN countries_dir.files = {}

\* The host:port keys of a list of descriptors or of results.
KeysOf(ps) == { <<ps[k].host, ps[k].port>> : k \in 1..Len(ps) }

\* C11: whatever failed, the run ends with one outcome per host:port key of the
\* parsed proxies, repeated keys counted once, the outcomes of different keys;
\* and a pipeline queued at the gate is never left without a pipeline that
\* holds a slot and will free it.
C11_OneOutcomePerCandidate ==
    /\ mainpc = "finished" =>
         /\ Len(results) = Cardinality(KeysOf(all_proxies))
         /\ KeysOf(results) = KeysOf(all_proxies)
         /\ \A k, l \in 1..Len(results) :
              k # l => <<results[k].host, results[k].port>> # <<results[l].host, results[l].port>>
    /\ \A i \in Tasks : pc[i] = "waiting" => \E j \in Tasks : HoldsSlot(j)

\* C11 witness: a key was parsed twice, the run has finished, and its one
\* outcome is a failure.
C11_Witness ==
    /\ mainpc = "finished"
    /\ Len(all_proxies) = 2
    /\ Len(results) = 1
    /\ ~results[1].tcp_ok

\* C12 as claimed: https_ok is true only after a 200 answer whose JSON body
\* holds an ip field, so an outcome with https_ok has a non-empty exit_ip.
C12_HttpsOkHasExitIp ==
    \A i \in Tasks : result[i].https_ok => result[i].exit_ip # ""

\* C13 as claimed: a pipeline in which a protocol check passed returns working,
\* with an empty error tag, whatever the geo lookup and the download answered.
C13_DegradedStillWorking ==
    \A i \in Tasks :
        pc[i] = "done" /\ (result[i].http_ok \/ result[i].https_ok) =>
            result[i].working /\ result[i].error = ""

\* The line of content that gave the descriptor d: the first line that parses
\* to d's key; 0 when no line does.
FirstLineOf(d) ==
    IF \E k \in 1..Len(content) : parse_proxy(content[k]).ok /\ Key(parse_proxy(content[k])) = Key(d)
    THEN CHOOSE k \in 1..Len(content) :
            /\ parse_proxy(content[k]).ok /\ Key(parse_proxy(content[k])) = Key(d)
            /\ \A j \in 1..(k - 1) :
                 ~(parse_proxy(content[j]).ok /\ Key(parse_proxy(content[j])) = Key(d))
    ELSE 0

\* C14: parse_proxy_list returns no two descriptors with the same host:port key;
\* every key a line parses to is there once, with the protocol and credentials
\* of the first line that has the key, and the descriptors are in the order of
\* those first lines.
C14_DedupFirstSeen ==
    mainpc = "parsed" =>
        /\ \A a, b \in 1..Len(proxies) : a # b => Key(proxies[a]) # Key(proxies[b])
        /\ \A k \in 1..Len(content) :
             parse_proxy(content[k]).ok =>
                \E a \in 1..Len(proxies) : Key(proxies[a]) = Key(parse_proxy(content[k]))
        /\ \A a \in 1..Len(proxies) :
             /\ FirstLineOf(proxies[a]) # 0
             /\ proxies[a] = Descriptor(parse_proxy(content[FirstLineOf(proxies[a])]))
        /\ \A a, b \in 1..Len(proxies) :
             a < b => FirstLineOf(proxies[a]) < FirstLineOf(proxies[b])

\* C14 witness: two lines with one key and different protocol and credentials
\* were parsed, and the descriptor kept is the one of the first line.
C14_Witness ==
    /\ mainpc = "parsed"
    /\ Len(content) = 2
    /\ content[1] = <<"socks5", ":", "//", "v", ":", "pw", "@", "10.0.0.1", ":", "8080">>
    /\ content[2] = <<"10.0.0.1", ":", "8080", ":", "u", ":", "pw">>
    /\ proxies = << [host |-> "10.0.0.1", port |-> 8080, protocol |-> "socks5",
                     user |-> "v", password |-> "pw"] >>

\* C15 as claimed: every descriptor has a non-empty host and a port in
\* 1..65535, and a line with an empty host or a port outside that range gives
\* no descriptor.
C15_HostAndPortValid ==
    \A a \in 1..Len(proxies) :
        proxies[a].host # "" /\ proxies[a].port >= 1 /\ proxies[a].port <= 65535

Listed(r) == r.country_code \in DOMAIN COUNTRY_PRIORITY

\* C16: the ranked list holds the working outcomes, in ascending order of the
\* table's priority, with every outcome of an unlisted code (the empty one and
\* 'XX' too) behind every outcome of a listed code, and in ascending latency
\* among outcomes of one priority.
C16_RankedByCountryThenLatency ==
    mainpc = "finished" =>
        /\ Len(working) = Cardinality({ i \in 1..Len(results) : results[i].working })
        /\ \A i \in 1..Len(results) :
             results[i].working => \E a \in 1..Len(working) : working[a] = results[i]
        /\ \A a, b \in 1..Len(working) :
             a < b =>
                /\ ~(Listed(working[b]) /\ ~Listed(working[a]))
                /\ Listed(working[a]) /\ Listed(working[b]) =>
                      COUNTRY_PRIORITY[working[a].country_code]
                         <= COUNTRY_PRIORITY[working[b].country_code]
                /\ \/ /\ Listed(working[a]) /\ Listed(working[b])
                      /\ COUNTRY_PRIORITY[working[a].country_code]
                           = COUNTRY_PRIORITY[working[b].country_code]
                   \/ ~Listed(working[a]) /\ ~Listed(working[b])
                   => working[a].latency_ms <= working[b].latency_ms

\* C16 witness: three working outcomes came back as unlisted, lower-priority
\* listed, higher-priority listed, and were ranked the other way round.
C16_Witness ==
    /\ mainpc = "finished"
    /\ Len(results) = 3
    /\ results[1].working /\ results[1].country_code = "BR"
    /\ results[2].working /\ results[2].country_code = "DE"
    /\ results[3].working /\ results[3].country_code = "RU"
    /\ working = <<results[3], results[2], results[1]>>

\* The stages, and the positions of a pipeline, in the order of the code.
StageOrder == <<"TCP_CHECK", "PROTOCOL_CHECK", "ENRICH", "THROUGHPUT">>
PcOrder == <<"created", "waiting", "woken", "tcp", "http", "https", "geo", "speed", "done">>
PositionIn(order, x) == CHOOSE k \in 1..Len(order) : order[k] = x

\* C17: the stages a pipeline has executed are distinct and in the order
\* TCP_CHECK, PROTOCOL_CHECK, ENRICH, THROUGHPUT; a step never takes a pipeline
\* back to an earlier position nor rewrites the stages it has executed, and a
\* pipeline that is done stays done with its outcome unchanged.
C17_StagesOnceInOrder ==
    /\ [](\A i \in Tasks : \A a, b \in 1..Len(stages[i]) :
            a < b => PositionIn(StageOrder, stages[i][a]) < PositionIn(StageOrder, stages[i][b]))
    /\ [][\A i \in Tasks :
            /\ pc'[i] # pc[i] => PositionIn(PcOrder, pc'[i]) > PositionIn(PcOrder, pc[i])
            /\ Len(stages'[i]) >= Len(stages[i])
            /\ SubSeq(stages'[i], 1, Len(stages[i])) = stages[i]
            /\ pc[i] = "done" => pc'[i] = "done" /\ result'[i] = result[i]
                                    /\ stages'[i] = stages[i]]_vars

\* C17 witness: a pipeline is done after all four stages while another one is
\* done after the TCP check alone.
C17_Witness ==
    \E i, j \in Tasks :
        /\ pc[i] = "done" /\ stages[i] = StageOrder
        /\ pc[j] = "done" /\ stages[j] = <<"TCP_CHECK">>
        /\ mainpc = "finished"

\* C18 as claimed: a pipeline in which a protocol check passed attempts the
\* download, anonymous or not; the geo lookup is issued exactly when the
\* outcome is anonymous, that is, when an exit address other than the own one
\* was captured; a working outcome that is not anonymous has empty country,
\* country_code and isp.
C18_ThroughputAlwaysGeoIfAnonymous ==
    \A i \in Tasks :
        pc[i] = "done" =>
            /\ result[i].http_ok \/ result[i].https_ok => InStages(i, "THROUGHPUT")
            /\ InStages(i, "ENRICH") <=> result[i].anonymous
            /\ result[i].anonymous <=> result[i].exit_ip # "" /\ result[i].exit_ip # my_ip
            /\ result[i].working /\ ~result[i].anonymous =>
                  result[i].country = "" /\ result[i].country_code = "" /\ result[i].isp = ""

\* C19: under fairness every pipeline of a run is eventually admitted and
\* done; the number of free slots is never negative nor above the capacity,
\* and once every pipeline is done, whatever the path it returned on, all the
\* slots are free.
C19_AllFinishSlotsReleased ==
    /\ [](semaphore >= 0 /\ semaphore <= max_concurrent)
    /\ [](mainpc \in {"checking", "finished"} /\ (\A i \in Tasks : pc[i] = "done")
            => semaphore = max_concurrent)
    /\ (mainpc = "checking") ~> (\A i \in Tasks : Admitted(i) /\ pc[i] = "done")

\* C19 witness: with one slot, the first pipeline returned on the session
\* exception, the second one, which had to wait, completed normally, and the
\* slot is free again.
C19_Witness ==
    /\ mainpc = "checking"
    /\ total = 2
    /\ max_concurrent = 1
    /\ pc[1] = "done" /\ result[1].error = "session_error"
    /\ pc[2] = "done" /\ result[2].working
    /\ semaphore = 1

\* Pipeline i has passed the gate, incremented the counter and read its number.
Entered(i) == pc[i] \notin {"created", "waiting", "woken"}

\* C20: the progress counter never decreases; it counts the pipelines that
\* have entered, no two of them have read the same number, and once all the
\* pipelines of the run have entered the numbers read are exactly 1..total.
C20_CounterHandsOutDistinctNumbers ==
    /\ [](\A i, j \in Tasks : i # j /\ Entered(i) /\ Entered(j) => num[i] # num[j])
    /\ [](counter = Cardinality({ i \in Tasks : Entered(i) }))
    /\ []((\A i \in Tasks : Entered(i)) => { num[i] : i \in Tasks } = 1..total)
    /\ [][counter' >= counter]_vars

\* C20 witness: two pipelines are past the gate at the same time, with the
\* numbers 1 and 2.
C20_Witness ==
    /\ total = 2
    /\ pc[1] = "tcp" /\ pc[2] = "tcp"
    /\ num[1] = 1 /\ num[2] = 2
    /\ counter = 2

====
